---- MODULE Spec2Model ----
(***************************************************************************)
(* Reliable-delivery transports of Logger-JS.                              *)
(*                                                                         *)
(*   LokiTransport (queued version)  src/unnamed/part_009, lines 178-373   *)
(*   SyslogTransport                 src/src/transports/syslogTransport.ts *)
(*                                                                         *)
(* Both run on one event loop: every handler (log(), a timer callback, the *)
(* continuation of an awaited fetch, a socket event) runs to completion,   *)
(* so each is one action.  Time is abstract: a pending timer may fire at   *)
(* any moment, a request in flight may complete at any moment.             *)
(* Queue items are the enqueue positions 1, 2, 3, ... of the log() calls.  *)
(***************************************************************************)
EXTENDS Integers, Sequences, FiniteSets, TLC

VARIABLES
    \* ---- LokiTransport: configuration as stored by the constructor
    hasUrl,          \* config.url is a non-empty string
    batchSize,       \* this.batchSize
    maxQueueSize,    \* this.maxQueueSize
    maxRetries,      \* this.maxRetries
    retryBaseDelay,  \* this.retryBaseDelay
    \* ---- LokiTransport: fields
    queue,           \* this.queue
    isSending,       \* this.isSending
    timeoutHandle,   \* this.timeoutHandle: "none" (undefined), "pending", "fired"
    retryTimer,      \* this.retryTimer:    "none" (undefined), "pending", "fired"
    retryCount,      \* this.retryCount
    \* ---- LokiTransport: the event loop and the network
    orphanTimers,    \* pending retry timers this.retryTimer no longer refers to
    inflight,        \* batchToSend of every push request that awaits its response
    \* ---- LokiTransport: history
    nextId,          \* number of log() calls accepted so far
    delivered,       \* items of the successful pushes, in order
    fails,           \* failed pushes since the last success or drop
    lastFailed,      \* batch of the last failed push that scheduled a retry
    sameFails,       \* failed pushes in a row that carried that same batch
    streakLogged,    \* log() was called since the first of these pushes started
    pushed,          \* a push request was issued since construction
    ev,              \* what the last handler did
    \* ---- SyslogTransport: configuration as stored by the constructor
    protocol,        \* this.config.protocol: "udp", "tcp", "tcp-tls" ("none": no instance)
    sMaxQueueSize,   \* this.maxQueueSize
    sRetryBaseDelay, \* this.retryBaseDelay
    \* ---- SyslogTransport: fields
    socket,          \* this.socket: "null", or the state of the socket it refers to:
                     \*   "open" (udp), "idle", "connecting", "connected" (tcp, tcp-tls),
                     \*   "destroyed" (tcp, tcp-tls after destroy()), "closed" (udp after close())
    sQueue,          \* this.queue
    isConnecting,    \* this.isConnecting
    sRetryCount,     \* this.retryCount
    reconnectTimer,  \* this.reconnectTimer is a pending timer
    pendingReconnects, \* reconnect timers set and neither fired nor cleared
    \* ---- SyslogTransport: the event loop and the network
    closePending,    \* a destroyed socket has its 'close' event still to emit
    hung,            \* a handler never returned: the event loop is blocked
    \* ---- SyslogTransport: history
    sNextId,         \* number of log() calls made so far
    written,         \* lines handed to socket.send / socket.write, in order
    pendingCb,       \* of these, the lines whose completion callback has not run yet
    sFails,          \* connection failures since the last established connection
    closeCalled,     \* close() has been called
    sEv,             \* what the last handler did
    \* ---- LokiTransport.log: the labels of the entry it formats
    labels,          \* this.config.labels, as the list of its [k, v] entries
    maxLabelCount,   \* this.maxLabelCount
    metadata,        \* entry.metadata of the entry formatted last
    stream,          \* streams[0].stream of the message formatted last (<< >>: none yet)
    \* ---- formatSyslogMessage: the head of the line it formats
    facility,        \* config.facility
    protocolVersion, \* config.protocolVersion
    entryLevel,      \* entry.level of the entry formatted last
    line,            \* the formatted line up to the timestamp, as characters (<< >>: none yet)
    \* ---- Logger
    loggerLevel,     \* this.level
    transports,      \* this.transports, as the list of the transports' names
    lEv              \* what the last Logger method did

lokiVars == << hasUrl, batchSize, maxQueueSize, maxRetries, retryBaseDelay,
               queue, isSending, timeoutHandle, retryTimer, retryCount,
               orphanTimers, inflight, nextId, delivered, fails, lastFailed,
               sameFails, streakLogged, pushed, ev >>

syslogVars == << protocol, sMaxQueueSize, sRetryBaseDelay, socket, sQueue,
                 isConnecting, sRetryCount, reconnectTimer, pendingReconnects,
                 closePending, hung,
                 sNextId, written, pendingCb, sFails, closeCalled, sEv >>

labelVars == << labels, maxLabelCount, metadata, stream >>

formatVars == << facility, protocolVersion, entryLevel, line >>

loggerVars == << loggerLevel, transports, lEv >>

vars == << lokiVars, syslogVars, labelVars, formatVars, loggerVars >>

----------------------------------------------------------------------------
(* Bounds of the model *)

MaxLogs == 4
MaxLines == 3
MaxAttempts == 3
MaxLabels == 2
MaxTransports == 3

(* Program constants *)

DefaultBatchSize == 10
DefaultMaxQueueSize == 10000
DefaultMaxRetries == 5
DefaultRetryBaseDelay == 1000
MaxDelay == 30000
SyslogDefaultMaxQueueSize == 1000
SyslogDefaultRetryBaseDelay == 1000
SyslogMaxDelay == 30000
DefaultMaxLabelCount == 50
DefaultFacility == 1
DefaultProtocolVersion == 3164

(* Configurations the constructor is called with; 0 stands for an option   *)
(* that is absent (undefined) or 0, which `||` treats alike.               *)
CfgBatchSizes == {0, 2}
CfgMaxQueueSizes == {0, 2}
CfgMaxRetries == {0, 1}
CfgRetryBaseDelays == {0, 20000}

(* SyslogTransport reads its options with `??`: only an absent option,     *)
(* written -1 here, takes the default.                                     *)
Protocols == {"udp", "tcp", "tcp-tls"}
CfgSyslogMaxQueueSizes == {-1, 0, 2}
CfgSyslogRetryBaseDelays == {-1, 20000}

(* Labels are objects: lists of [k, v] entries with distinct keys, in      *)
(* insertion order.  A value is a string; "" is the one that is falsy.     *)
CfgMaxLabelCounts == {0, 1, 2, 3}
LabelKeys == {"app", "env"}
MetadataKeys == {"app", "user", "device"}
LabelValues == {"", "x"}

(* The log levels, and the options formatSyslogMessage reads with `??`     *)
(* (-1: absent).                                                           *)
Levels == [ERROR |-> 0, WARN |-> 1, AUDIT |-> 2, INFO |-> 3, HTTP |-> 4,
           DEBUG |-> 5, VERBOSE |-> 6, SILLY |-> 7]
LevelValues == { Levels[n] : n \in DOMAIN Levels }
CfgFacilities == -1..23
CfgProtocolVersions == {-1, 3164, 5424}

(* Logger: the transports there are, and the configurations it is built    *)
(* with (-1, << >>: option absent).                                        *)
TransportNames == {"console", "loki", "syslog"}
CfgLevels == {-1, Levels.WARN}
CfgTransports == {<< >>, << "loki" >>}

----------------------------------------------------------------------------
(* Helpers *)

Min(a, b) == IF a <= b THEN a ELSE b

RECURSIVE Pow2(_)
Pow2(n) == IF n <= 0 THEN 1 ELSE 2 * Pow2(n - 1)

Range(s) == { s[i] : i \in 1..Len(s) }

\* Array.prototype.slice(0, n)
SliceTo(q, n) == SubSeq(q, 1, Min(n, Len(q)))

\* Array.prototype.slice(n)
SliceFrom(q, n) == SubSeq(q, n + 1, Len(q))

\* Array.prototype.shift(): the array afterwards
Shift(q) == IF q = << >> THEN q ELSE Tail(q)

\* config.x || d
OrDefault(v, d) == IF v = 0 THEN d ELSE v

\* config.x ?? d
Coalesce(v, d) == IF v < 0 THEN d ELSE v

NoEv == [op |-> "init", item |-> 0, evicted |-> 0, wasFull |-> FALSE,
         started |-> << >>, batch |-> << >>, removed |-> << >>,
         retry |-> FALSE, dropped |-> FALSE, delay |-> 0, n |-> 0, same |-> 0,
         logged |-> FALSE,
         prevFailed |-> << >>,
         cleared |-> FALSE, armed |-> FALSE, first |-> FALSE,
         wasIdle |-> FALSE, quiet |-> FALSE]

----------------------------------------------------------------------------
(* LokiTransport *)

\* a full queue refuses the new entry instead of evicting the oldest one
EnqueueDropsNewest(q, item, max) ==
    IF Len(q) >= max THEN q ELSE Append(q, item)

\* log(), lines 269-274: the queue after the entry was enqueued
Enqueue(q, item, max) ==
    Append(IF Len(q) >= max THEN Shift(q) ELSE q, item)

\* an off-by-one slice takes one item fewer than batchSize
BatchToSendShort(q, size) == SliceTo(q, size - 1)

\* sendBatch, line 316
BatchToSend(q, size) == SliceTo(q, size)

\* the batch is removed from the tail of the queue
RemoveBatchFromTail(q, batch) == SubSeq(q, 1, Len(q) - Len(batch))

\* an off-by-one slice leaves the last item of the batch in the queue
RemoveBatchKeepsLast(q, batch) == SliceFrom(q, Len(batch) - 1)

\* sendBatch, lines 340 and 362: the queue after a batch left it
RemoveBatch(q, batch) == SliceFrom(q, Len(batch))

\* `<` for `<=`: one retry fewer than configured
RetryAllowedStrict(count, max) == count < max

\* sendBatch, line 353
RetryAllowed(count, max) == count <= max

\* the backoff without its cap
RetryDelayUncapped(base, count) == base * Pow2(count - 1)

\* sendBatch, line 354
RetryDelay(base, count) == Min(base * Pow2(count - 1), MaxDelay)

\* The transport as a record, so that handlers compose as the methods do.
\* started: the batch of the push request this handler issued, if any;
\* cleared: it cancelled a pending linger timer; armed: it set a linger timer.
This == [queue |-> queue, isSending |-> isSending, timeoutHandle |-> timeoutHandle,
         retryTimer |-> retryTimer, retryCount |-> retryCount,
         orphanTimers |-> orphanTimers, inflight |-> inflight,
         pushed |-> pushed,
         started |-> << >>, cleared |-> FALSE, armed |-> FALSE]

Becomes(s) ==
    /\ queue' = s.queue
    /\ isSending' = s.isSending
    /\ timeoutHandle' = s.timeoutHandle
    /\ retryTimer' = s.retryTimer
    /\ retryCount' = s.retryCount
    /\ orphanTimers' = s.orphanTimers
    /\ inflight' = s.inflight
    /\ pushed' = s.pushed

\* nothing is in flight, no retry is counted or pending
Idle ==
    /\ ~isSending
    /\ inflight = << >>
    /\ retryCount = 0
    /\ retryTimer # "pending"
    /\ orphanTimers = 0

\* the request in flight carries the whole queue and no timer is pending
Quiet ==
    /\ inflight = << queue >>
    /\ timeoutHandle # "pending"
    /\ retryTimer # "pending"
    /\ orphanTimers = 0

\* what a handler that ends in state s did to the timers and the network
Did(s) == [NoEv EXCEPT !.started = s.started,
                       !.cleared = s.cleared, !.armed = s.armed,
                       !.first = s.pushed /\ ~pushed,
                       !.wasIdle = Idle, !.quiet = Quiet]

\* sendBatch that does not raise the isSending flag
SendBatchFlagNotSet(s) ==
    IF Len(s.queue) = 0 \/ s.isSending
    THEN s
    ELSE [s EXCEPT !.inflight = Append(@, BatchToSend(s.queue, batchSize)),
                   !.pushed = TRUE,
                   !.started = BatchToSend(s.queue, batchSize)]

\* sendBatch up to its first await, lines 312-337
SendBatch(s) ==
    IF Len(s.queue) = 0 \/ s.isSending
    THEN s
    ELSE [s EXCEPT !.isSending = TRUE,
                   !.inflight = Append(@, BatchToSend(s.queue, batchSize)),
                   !.pushed = TRUE,
                   !.started = BatchToSend(s.queue, batchSize)]

\* scheduleSend without its isSending guard
ScheduleSendNoGuard(s, immediate) ==
    LET c == [s EXCEPT !.timeoutHandle = "none",
                       !.cleared = @ \/ s.timeoutHandle = "pending"]
    IN  IF Len(c.queue) > 0 /\ (immediate \/ Len(c.queue) >= batchSize)
        THEN SendBatch(c)
        ELSE IF Len(c.queue) > 0
             THEN [c EXCEPT !.timeoutHandle = "pending", !.armed = TRUE]
             ELSE c

\* scheduleSend that leaves a pending linger timer running instead of
\* replacing it
ScheduleSendKeepsTimer(s, immediate) ==
    IF s.isSending
    THEN s
    ELSE IF Len(s.queue) > 0 /\ (immediate \/ Len(s.queue) >= batchSize)
         THEN SendBatch([s EXCEPT !.timeoutHandle = "none",
                                  !.cleared = @ \/ s.timeoutHandle = "pending"])
         ELSE IF Len(s.queue) > 0 /\ s.timeoutHandle # "pending"
              THEN [s EXCEPT !.timeoutHandle = "pending", !.armed = TRUE]
              ELSE s

\* scheduleSend that starts a push without cancelling the linger timer
ScheduleSendNoClear(s, immediate) ==
    IF s.isSending
    THEN s
    ELSE IF Len(s.queue) > 0 /\ (immediate \/ Len(s.queue) >= batchSize)
         THEN SendBatch(s)
         ELSE LET c == [s EXCEPT !.timeoutHandle = "none",
                                 !.cleared = @ \/ s.timeoutHandle = "pending"]
              IN  IF Len(c.queue) > 0
                  THEN [c EXCEPT !.timeoutHandle = "pending", !.armed = TRUE]
                  ELSE c

\* scheduleSend that arms no linger timer for an incomplete batch
ScheduleSendNoLinger(s, immediate) ==
    IF s.isSending
    THEN s
    ELSE LET c == [s EXCEPT !.timeoutHandle = "none",
                            !.cleared = @ \/ s.timeoutHandle = "pending"]
         IN  IF Len(c.queue) > 0 /\ (immediate \/ Len(c.queue) >= batchSize)
             THEN SendBatch(c)
             ELSE c

\* scheduleSend, lines 283-296
ScheduleSend(s, immediate) ==
    IF s.isSending
    THEN s
    ELSE LET c == [s EXCEPT !.timeoutHandle = "none",
                            !.cleared = @ \/ s.timeoutHandle = "pending"]
         IN  IF Len(c.queue) > 0 /\ (immediate \/ Len(c.queue) >= batchSize)
             THEN SendBatch(c)
             ELSE IF Len(c.queue) > 0
                  THEN [c EXCEPT !.timeoutHandle = "pending", !.armed = TRUE]
                  ELSE c

\* a finally block that clears the flag and schedules nothing
FinallyNoReschedule(s) == [s EXCEPT !.isSending = FALSE]

\* sendBatch, finally block, lines 365-371
Finally(s) ==
    LET f == [s EXCEPT !.isSending = FALSE]
    IN  IF Len(f.queue) > 0 /\ f.retryCount = 0
        THEN ScheduleSend(f, FALSE)
        ELSE f

\* sendBatch after a response with response.ok, lines 339-345, then finally
OnSuccess(s, batch) ==
    Finally([s EXCEPT !.queue = RemoveBatch(s.queue, batch),
                      !.retryCount = 0,
                      !.retryTimer = "none"])

\* sendBatch, catch block, lines 349-364, then finally
OnFailure(s, batch) ==
    LET count == s.retryCount + 1
    IN  IF RetryAllowed(count, maxRetries)
        THEN Finally([s EXCEPT !.retryCount = count,
                               !.retryTimer = "pending",
                               !.orphanTimers =
                                   IF s.retryTimer = "pending" THEN @ + 1 ELSE @])
        ELSE Finally([s EXCEPT !.retryCount = 0,
                               !.queue = RemoveBatch(s.queue, batch)])

\* a non-2xx response that is not retried: the batch is dropped at once
OnNon2xxDrops(s, batch) ==
    Finally([s EXCEPT !.retryCount = 0,
                      !.queue = RemoveBatch(s.queue, batch)])

\* sendBatch after a response without response.ok, lines 346-348: the error
\* thrown there is caught by the same catch block as a rejected fetch
OnNon2xx(s, batch) == OnFailure(s, batch)

\* constructor, lines 232-240: no statement of it rejects a configuration
ConstructorThrows(url) == FALSE

\* constructor, lines 232-240: the stored settings
LokiInit ==
    /\ hasUrl \in { url \in BOOLEAN : ~ConstructorThrows(url) }
    /\ batchSize \in { OrDefault(c, DefaultBatchSize) : c \in CfgBatchSizes }
    /\ maxQueueSize \in { OrDefault(c, DefaultMaxQueueSize) : c \in CfgMaxQueueSizes }
    /\ maxRetries \in { OrDefault(c, DefaultMaxRetries) : c \in CfgMaxRetries }
    /\ retryBaseDelay \in { OrDefault(c, DefaultRetryBaseDelay) : c \in CfgRetryBaseDelays }
    /\ queue = << >>
    /\ isSending = FALSE
    /\ timeoutHandle = "none"
    /\ retryTimer = "none"
    /\ retryCount = 0
    /\ orphanTimers = 0
    /\ inflight = << >>
    /\ nextId = 0
    /\ delivered = << >>
    /\ fails = 0
    /\ lastFailed = << >>
    /\ sameFails = 0
    /\ streakLogged = FALSE
    /\ pushed = FALSE
    /\ ev = NoEv

cfgVars == << hasUrl, batchSize, maxQueueSize, maxRetries, retryBaseDelay >>

\* log(entry), lines 263-276
Log ==
    /\ nextId < MaxLogs
    /\ LET item == nextId + 1
           s == ScheduleSend([This EXCEPT !.queue = Enqueue(queue, item, maxQueueSize)],
                             FALSE)
       IN  /\ Becomes(s)
           /\ nextId' = item
           /\ ev' = [Did(s) EXCEPT !.op = "log", !.item = item,
                                 !.wasFull = (Len(queue) >= maxQueueSize),
                                 !.evicted = IF Len(queue) >= maxQueueSize /\ Len(queue) > 0
                                             THEN Head(queue) ELSE 0,
                                 !.started = s.started,
                                 !.prevFailed = lastFailed]
           /\ streakLogged' = IF isSending \/ fails > 0 THEN TRUE ELSE streakLogged
    /\ UNCHANGED << cfgVars, delivered, fails, lastFailed, sameFails, syslogVars, labelVars, formatVars,
                    loggerVars >>

\* the linger timer fires, line 294
LingerFires ==
    /\ timeoutHandle = "pending"
    /\ LET s == SendBatch([This EXCEPT !.timeoutHandle = "fired"])
       IN  /\ Becomes(s)
           /\ ev' = [Did(s) EXCEPT !.op = "linger", !.started = s.started,
                                 !.prevFailed = lastFailed]
    /\ UNCHANGED << cfgVars, nextId, delivered, fails, lastFailed, sameFails,
                    streakLogged, syslogVars, labelVars, formatVars,
                    loggerVars >>

\* a retry timer fires, lines 357-359
RetryFires ==
    /\ \/ /\ retryTimer = "pending"
          /\ LET s == ScheduleSend([This EXCEPT !.retryTimer = "fired"], TRUE)
             IN  /\ Becomes(s)
                 /\ ev' = [Did(s) EXCEPT !.op = "retry", !.started = s.started,
                                       !.prevFailed = lastFailed]
       \/ /\ orphanTimers > 0
          /\ LET s == ScheduleSend([This EXCEPT !.orphanTimers = @ - 1], TRUE)
             IN  /\ Becomes(s)
                 /\ ev' = [Did(s) EXCEPT !.op = "retry", !.started = s.started,
                                       !.prevFailed = lastFailed]
    /\ UNCHANGED << cfgVars, nextId, delivered, fails, lastFailed, sameFails,
                    streakLogged, syslogVars, labelVars, formatVars,
                    loggerVars >>

Drop(i, s) == SubSeq(s, 1, i - 1) \o SubSeq(s, i + 1, Len(s))

\* the awaited fetch resolves with a 2xx response
PushSucceeds ==
    /\ hasUrl
    /\ \E i \in 1..Len(inflight) :
         LET batch == inflight[i]
             s == OnSuccess([This EXCEPT !.inflight = Drop(i, @)], batch)
         IN  /\ Becomes(s)
             /\ delivered' = delivered \o batch
             /\ ev' = [Did(s) EXCEPT !.op = "ok", !.batch = batch,
                                   !.removed = SubSeq(queue, 1, Len(queue) - Len(s.queue)),
                                   !.started = s.started]
    /\ fails' = 0
    /\ lastFailed' = << >>
    /\ sameFails' = 0
    /\ streakLogged' = FALSE
    /\ UNCHANGED << cfgVars, nextId, syslogVars, labelVars, formatVars,
                    loggerVars >>

\* the catch block and the finally block run for request i; the history
\* records what they did: a retry timer was set, or items left the queue
Failed(op, i) ==
    LET batch == inflight[i]
        s == IF op = "non2xx"
             THEN OnNon2xx([This EXCEPT !.inflight = Drop(i, @)], batch)
             ELSE OnFailure([This EXCEPT !.inflight = Drop(i, @)], batch)
        retry == s.retryTimer = "pending" /\
                 (retryTimer # "pending" \/ s.orphanTimers > orphanTimers)
        dropped == Len(s.queue) < Len(queue)
        same == IF batch = lastFailed THEN sameFails + 1 ELSE 1
    IN  /\ Becomes(s)
        /\ fails' = IF dropped THEN 0 ELSE fails + 1
        /\ lastFailed' = IF dropped THEN << >> ELSE batch
        /\ sameFails' = IF dropped THEN 0 ELSE same
        /\ streakLogged' = IF dropped THEN FALSE ELSE streakLogged
        /\ ev' = [Did(s) EXCEPT !.op = op, !.batch = batch,
                              !.retry = retry, !.dropped = dropped,
                              !.n = fails + 1, !.same = same,
                              !.logged = streakLogged,
                              !.delay = IF retry
                                        THEN RetryDelay(retryBaseDelay, s.retryCount)
                                        ELSE 0,
                              !.removed = SubSeq(queue, 1, Len(queue) - Len(s.queue)),
                              !.prevFailed = lastFailed,
                              !.started = s.started]
        /\ UNCHANGED << cfgVars, nextId, delivered, syslogVars, labelVars, formatVars,
                    loggerVars >>

\* the awaited fetch resolves with a non-2xx response, line 347
PushRejected ==
    /\ hasUrl
    /\ \E i \in 1..Len(inflight) : Failed("non2xx", i)

\* the awaited fetch rejects (network error, or no usable URL)
PushErrors ==
    \E i \in 1..Len(inflight) : Failed("neterr", i)

----------------------------------------------------------------------------
(* SyslogTransport *)

NoSEv == [op |-> "init", item |-> 0, scheduled |-> FALSE, delay |-> 0, n |-> 0,
          returned |-> TRUE, threw |-> FALSE,
          flushed |-> << >>, after |-> 0, resolved |-> FALSE]

\* the new line goes to the front of the queue instead of the back
SyslogEnqueueFront(q, item, max) ==
    << item >> \o (IF Len(q) >= max THEN Shift(q) ELSE q)

\* a full queue refuses the new line instead of evicting the oldest one
SyslogEnqueueDropsNewest(q, item, max) ==
    IF Len(q) >= max THEN q ELSE Append(q, item)

\* log(), lines 266-271: the queue after the line was enqueued
SyslogEnqueue(q, item, max) ==
    Append(IF Len(q) >= max THEN Shift(q) ELSE q, item)

\* handleSocketError, line 201
ReconnectDelay(base, count) == Min(base * Pow2(count - 1), SyslogMaxDelay)

\* sendMessage, lines 238-254: socket.send / socket.write throws synchronously.
\* A datagram socket that was closed throws ERR_SOCKET_DGRAM_NOT_RUNNING; a
\* stream socket reports a failed write through the callback instead.
SendThrows(sock) == sock = "closed"

\* The transport as a record, so that handlers compose as the methods do.
\* scheduled, delay: the reconnect this handler scheduled, if any.
SThis == [socket |-> socket, queue |-> sQueue, isConnecting |-> isConnecting,
          retryCount |-> sRetryCount, reconnectTimer |-> reconnectTimer,
          pendingReconnects |-> pendingReconnects,
          closePending |-> closePending, hung |-> hung, written |-> written,
          pendingCb |-> pendingCb,
          scheduled |-> FALSE, delay |-> 0]

SBecomes(s) ==
    /\ socket' = s.socket
    /\ sQueue' = s.queue
    /\ isConnecting' = s.isConnecting
    /\ sRetryCount' = s.retryCount
    /\ reconnectTimer' = s.reconnectTimer
    /\ pendingReconnects' = s.pendingReconnects
    /\ closePending' = s.closePending
    /\ hung' = s.hung
    /\ written' = s.written
    /\ pendingCb' = s.pendingCb

\* handleSocketError that stops reconnecting after the second failure
HandleSocketErrorGivesUp(s) ==
    IF s.reconnectTimer
    THEN s
    ELSE [s EXCEPT !.socket = "null",
                   !.isConnecting = FALSE,
                   !.retryCount = @ + 1,
                   !.reconnectTimer = (s.retryCount < 2),
                   !.pendingReconnects = IF s.retryCount < 2 THEN @ + 1 ELSE @,
                   !.scheduled = (s.retryCount < 2),
                   !.delay = ReconnectDelay(sRetryBaseDelay, s.retryCount + 1)]

\* handleSocketError without its guard on the pending timer
HandleSocketErrorNoGuard(s) ==
    [s EXCEPT !.socket = "null",
              !.isConnecting = FALSE,
              !.retryCount = @ + 1,
              !.reconnectTimer = TRUE,
              !.pendingReconnects = @ + 1,
              !.scheduled = TRUE,
              !.delay = ReconnectDelay(sRetryBaseDelay, s.retryCount + 1)]

\* handleSocketError, lines 195-208
HandleSocketError(s) ==
    IF s.reconnectTimer
    THEN s
    ELSE [s EXCEPT !.socket = "null",
                   !.isConnecting = FALSE,
                   !.retryCount = @ + 1,
                   !.reconnectTimer = TRUE,
                   !.pendingReconnects = @ + 1,
                   !.scheduled = TRUE,
                   !.delay = ReconnectDelay(sRetryBaseDelay, s.retryCount + 1)]

\* flushQueue that sends the first line only
FlushQueueSendsOne(s) ==
    IF s.socket = "null" \/ Len(s.queue) = 0
    THEN s
    ELSE IF SendThrows(s.socket)
         THEN [s EXCEPT !.hung = TRUE]
         ELSE [s EXCEPT !.written = Append(@, Head(s.queue)),
                        !.pendingCb = Append(@, Head(s.queue)),
                        !.queue = Tail(s.queue)]

\* flushQueue with sendMessage, lines 215-255.  Each turn of the loop shifts
\* the first line and sends it.  A send that throws puts the line back at
\* the front, so the next turn finds the queue as the last one did: the loop
\* does not end.  A send that does not throw hands the line to the socket.
FlushQueue(s) ==
    IF s.socket = "null" \/ Len(s.queue) = 0
    THEN s
    ELSE IF SendThrows(s.socket)
         THEN [s EXCEPT !.hung = TRUE]
         ELSE [s EXCEPT !.written = @ \o s.queue,
                        !.pendingCb = @ \o s.queue,
                        !.queue = << >>]

\* connectTcpSocket, lines 177-188, up to the connect call
ConnectTcpSocket(s) ==
    IF s.isConnecting
    THEN s
    ELSE [s EXCEPT !.isConnecting = TRUE, !.socket = "connecting"]

\* initializeSocket, lines 75-97, with initializeUdpSocket, initializeTcpSocket
\* and initializeTlsSocket, lines 104-147.  A socket the transport still
\* refers to loses its listeners and is destroyed: it emits nothing any more.
\* The callers are the constructor, where this.reconnectTimer is null, and
\* the callback of that timer: clearTimeout has no pending timer to cancel.
InitializeSocket(s) ==
    LET c == [s EXCEPT !.reconnectTimer = FALSE,
                       !.closePending = IF s.socket # "null" THEN FALSE ELSE @]
    IN  CASE protocol = "udp" -> [c EXCEPT !.socket = "open"]
          [] protocol = "tcp" -> ConnectTcpSocket([c EXCEPT !.socket = "idle"])
          [] protocol = "tcp-tls" -> [c EXCEPT !.socket = "connecting"]

\* a connect callback that leaves retryCount as the failures left it
ConnectCallbackKeepsCount(s) ==
    FlushQueue([s EXCEPT !.socket = "connected",
                         !.isConnecting = IF protocol = "tcp" THEN FALSE ELSE @])

\* the connect callback of the stream socket, lines 182-187, and the
\* secureConnect callback of the encrypted one, lines 140-144, which leaves
\* isConnecting alone
ConnectCallback(s) ==
    FlushQueue([s EXCEPT !.socket = "connected",
                         !.isConnecting = IF protocol = "tcp" THEN FALSE ELSE @,
                         !.retryCount = 0])

\* constructor, lines 51-68
SyslogInit ==
    /\ protocol \in Protocols
    /\ sMaxQueueSize \in { Coalesce(c, SyslogDefaultMaxQueueSize) : c \in CfgSyslogMaxQueueSizes }
    /\ sRetryBaseDelay \in { Coalesce(c, SyslogDefaultRetryBaseDelay) : c \in CfgSyslogRetryBaseDelays }
    /\ socket = CASE protocol = "udp" -> "open"
                  [] protocol = "tcp" -> "connecting"
                  [] protocol = "tcp-tls" -> "connecting"
    /\ isConnecting = (protocol = "tcp")
    /\ sQueue = << >>
    /\ sRetryCount = 0
    /\ reconnectTimer = FALSE
    /\ pendingReconnects = 0
    /\ closePending = FALSE
    /\ hung = FALSE
    /\ sNextId = 0
    /\ written = << >>
    /\ pendingCb = << >>
    /\ sFails = 0
    /\ closeCalled = FALSE
    /\ sEv = NoSEv

sCfgVars == << protocol, sMaxQueueSize, sRetryBaseDelay >>

\* what a handler that may schedule a reconnect did, for the history
Reconnects(op, s) ==
    /\ SBecomes(s)
    /\ sFails' = IF s.scheduled THEN sFails + 1 ELSE sFails
    /\ sEv' = [NoSEv EXCEPT !.op = op, !.scheduled = s.scheduled,
                            !.delay = s.delay,
                            !.n = IF s.scheduled THEN sFails + 1 ELSE 0]

\* log(entry), lines 263-278
SyslogLog ==
    /\ ~hung
    /\ sNextId < MaxLines
    /\ LET item == sNextId + 1
           q == [SThis EXCEPT !.queue = SyslogEnqueue(sQueue, item, sMaxQueueSize)]
           s == IF q.socket # "null" /\ ~q.isConnecting THEN FlushQueue(q) ELSE q
       IN  /\ SBecomes(s)
           /\ sNextId' = item
           /\ sEv' = [NoSEv EXCEPT !.op = "log", !.item = item,
                                   !.returned = ~s.hung]
    /\ UNCHANGED << sCfgVars, sFails, closeCalled, lokiVars, labelVars, formatVars,
                    loggerVars >>

\* the connect callback of the stream socket, lines 182-187, or the
\* secureConnect callback of the encrypted one, lines 140-144
ConnectSucceeds ==
    /\ ~hung
    /\ socket = "connecting"
    /\ LET s == ConnectCallback(SThis)
       IN  /\ SBecomes(s)
           /\ sEv' = [NoSEv EXCEPT !.op = "connect", !.returned = ~s.hung,
                                   !.flushed = SubSeq(s.written, Len(written) + 1,
                                                      Len(s.written)),
                                   !.after = sFails]
    /\ sFails' = 0
    /\ UNCHANGED << sCfgVars, sNextId, closeCalled, lokiVars, labelVars, formatVars,
                    loggerVars >>

\* a stream socket fails: 'error', then 'close', lines 157-165
SocketFails ==
    /\ ~hung
    /\ socket \in {"connecting", "connected"}
    /\ sRetryCount < MaxAttempts
    /\ Reconnects("error", HandleSocketError(HandleSocketError(SThis)))
    /\ UNCHANGED << sCfgVars, sNextId, closeCalled, lokiVars, labelVars, formatVars,
                    loggerVars >>

\* the peer ends an established connection: 'end', then 'close', lines 162-169
PeerCloses ==
    /\ ~hung
    /\ socket = "connected"
    /\ sRetryCount < MaxAttempts
    /\ Reconnects("close", HandleSocketError(SThis))
    /\ UNCHANGED << sCfgVars, sNextId, closeCalled, lokiVars, labelVars, formatVars,
                    loggerVars >>

\* the datagram socket emits 'error', lines 107-110
UdpSocketErrors ==
    /\ ~hung
    /\ socket = "open"
    /\ sRetryCount < MaxAttempts
    /\ Reconnects("error", HandleSocketError(SThis))
    /\ UNCHANGED << sCfgVars, sNextId, closeCalled, lokiVars, labelVars, formatVars,
                    loggerVars >>

\* a socket destroyed by close() emits its 'close', lines 162-165
DestroyedSocketCloses ==
    /\ ~hung
    /\ closePending
    /\ sRetryCount < MaxAttempts
    /\ Reconnects("close", HandleSocketError([SThis EXCEPT !.closePending = FALSE]))
    /\ UNCHANGED << sCfgVars, sNextId, closeCalled, lokiVars, labelVars, formatVars,
                    loggerVars >>

\* the reconnect timer fires, lines 205-207: it is pending no longer
ReconnectFires ==
    /\ ~hung
    /\ reconnectTimer
    /\ SBecomes(InitializeSocket([SThis EXCEPT !.pendingReconnects = @ - 1]))
    /\ sEv' = [NoSEv EXCEPT !.op = "reconnect"]
    /\ UNCHANGED << sCfgVars, sNextId, sFails, closeCalled, lokiVars, labelVars, formatVars,
                    loggerVars >>

\* close(), lines 302-304: close() of a datagram socket that is already
\* closed throws ERR_SOCKET_DGRAM_NOT_RUNNING, inside the promise executor
CloseThrows(sock) == sock = "closed"

\* close(), lines 285-308.  The promise resolves on the next tick or on the
\* socket's 'close' event; when the executor throws it is rejected.
SyslogClose ==
    /\ ~hung
    /\ LET c == [SThis EXCEPT !.reconnectTimer = FALSE,
                              !.pendingReconnects = IF reconnectTimer THEN @ - 1 ELSE @]
           s == CASE c.socket = "null" -> c
                  [] c.socket \in {"open", "closed"} -> [c EXCEPT !.socket = "closed"]
                  [] OTHER -> [c EXCEPT !.closePending = (c.socket # "destroyed") \/ @,
                                        !.socket = "destroyed"]
       IN  SBecomes(s)
    /\ closeCalled' = TRUE
    /\ sEv' = [NoSEv EXCEPT !.op = "close", !.resolved = ~CloseThrows(socket)]
    /\ UNCHANGED << sCfgVars, sNextId, sFails, lokiVars, labelVars, formatVars,
                    loggerVars >>

\* the completion callback of socket.send / socket.write runs without an
\* error, lines 241-243 and 246-248: nothing to do
SendCompletes ==
    /\ ~hung
    /\ pendingCb # << >>
    /\ pendingCb' = Tail(pendingCb)
    /\ sEv' = [NoSEv EXCEPT !.op = "sent", !.item = Head(pendingCb)]
    /\ UNCHANGED << sCfgVars, socket, sQueue, isConnecting, sRetryCount,
                    reconnectTimer, pendingReconnects, closePending, hung,
                    sNextId, written,
                    sFails, closeCalled, lokiVars, labelVars, formatVars,
                    loggerVars >>

\* the completion callback runs with an error, lines 241-243 and 246-248:
\* it writes to the console in debug mode and does nothing else
SendCallbackErrors ==
    /\ ~hung
    /\ pendingCb # << >>
    /\ pendingCb' = Tail(pendingCb)
    /\ sEv' = [NoSEv EXCEPT !.op = "senderr", !.item = Head(pendingCb)]
    /\ UNCHANGED << sCfgVars, socket, sQueue, isConnecting, sRetryCount,
                    reconnectTimer, pendingReconnects, closePending, hung,
                    sNextId, written,
                    sFails, closeCalled, lokiVars, labelVars, formatVars,
                    loggerVars >>

SyslogNext ==
    \/ SyslogLog
    \/ SendCompletes
    \/ SendCallbackErrors
    \/ ConnectSucceeds
    \/ SocketFails
    \/ PeerCloses
    \/ UdpSocketErrors
    \/ DestroyedSocketCloses
    \/ ReconnectFires
    \/ SyslogClose

LokiNext ==
    \/ Log
    \/ LingerFires
    \/ RetryFires
    \/ PushSucceeds
    \/ PushRejected
    \/ PushErrors

----------------------------------------------------------------------------
(* LokiTransport.log: the labels of the formatted entry *)

Keys(o) == { o[i].k : i \in 1..Len(o) }

\* the objects with at most MaxLabels entries, keys from ks
Objects(ks) ==
    { o \in UNION { [1..n -> [k : ks, v : LabelValues]] : n \in 0..MaxLabels } :
        \A i, j \in 1..Len(o) : i # j => o[i].k # o[j].k }

\* o[key]: "undefined" when the object has no such key
Get(o, key) ==
    IF key \in Keys(o)
    THEN (CHOOSE e \in Range(o) : e.k = key).v
    ELSE "undefined"

\* !value of a string or undefined
Falsy(value) == value \in {"", "undefined"}

\* o[e.k] = e.v: an existing key keeps its place, a new one goes last
Put(o, e) ==
    IF e.k \in Keys(o)
    THEN [i \in 1..Len(o) |-> IF o[i].k = e.k THEN e ELSE o[i]]
    ELSE Append(o, e)

\* { ...a, ...b }
RECURSIVE Spread(_, _)
Spread(a, b) == IF b = << >> THEN a ELSE Spread(Put(a, Head(b)), Tail(b))

\* Object.fromEntries(es)
FromEntries(es) == Spread(<< >>, es)

\* Array.prototype.slice(0, n), n of either sign
SliceEnd(s, n) ==
    IF n >= 0
    THEN SubSeq(s, 1, Min(n, Len(s)))
    ELSE SubSeq(s, 1, Len(s) + n)

\* formatLokiMessage, lines 20-54 of part_014: streams[0].stream
FormatLokiMessage(entryMetadata, max, lbls) ==
    LET baseLabels == Spread(<< [k |-> "level", v |-> "INFO"] >>, lbls)
        allLabels == Spread(baseLabels, entryMetadata)
        totalLabels == Len(allLabels)
        rest(e) == e.k # "level" /\ Falsy(Get(lbls, e.k))
    IN  IF max > 0 /\ totalLabels > max
        THEN FromEntries(<< [k |-> "level", v |-> Get(allLabels, "level")] >>
                         \o lbls
                         \o SliceEnd(SelectSeq(allLabels, rest), max - 1 - Len(lbls)))
        ELSE allLabels

\* constructor, line 235
LabelsInit ==
    /\ labels \in Objects(LabelKeys)
    /\ maxLabelCount \in { OrDefault(c, DefaultMaxLabelCount) : c \in CfgMaxLabelCounts }
    /\ metadata = << >>
    /\ stream = << >>

\* log(entry), lines 263-267: the entry is formatted with the static labels
\* and its own metadata merged into the third argument
LogFormats ==
    /\ \E md \in Objects(MetadataKeys) :
         /\ metadata' = md
         /\ stream' = FormatLokiMessage(md, maxLabelCount, Spread(labels, md))
    /\ UNCHANGED << labels, maxLabelCount, lokiVars, syslogVars, formatVars,
                    loggerVars >>

----------------------------------------------------------------------------
(* formatSyslogMessage: the priority at the head of the line *)

\* SYSLOG_SEVERITY, lines 17-26 of part_013
SYSLOG_SEVERITY ==
    (Levels.ERROR :> 3) @@ (Levels.WARN :> 4) @@ (Levels.AUDIT :> 5) @@
    (Levels.INFO :> 6) @@ (Levels.HTTP :> 6) @@ (Levels.DEBUG :> 7) @@
    (Levels.VERBOSE :> 7) @@ (Levels.SILLY :> 7)

\* a << n; the operands here stay far below the 32-bit range of `<<`
ShiftLeft(a, n) == a * 2^n

\* a | b, bit by bit
RECURSIVE BitOr(_, _)
BitOr(a, b) ==
    IF a = 0 /\ b = 0
    THEN 0
    ELSE (IF a % 2 = 1 \/ b % 2 = 1 THEN 1 ELSE 0) + 2 * BitOr(a \div 2, b \div 2)

DigitChars == << "0", "1", "2", "3", "4", "5", "6", "7", "8", "9" >>

\* `${n}` of a non-negative integer: its decimal digits
RECURSIVE Digits(_)
Digits(n) ==
    IF n < 10
    THEN << DigitChars[n + 1] >>
    ELSE Digits(n \div 10) \o << DigitChars[(n % 10) + 1] >>

\* a priority that leaves the facility unshifted
PriorityUnshifted(lvl, fac) == BitOr(fac, SYSLOG_SEVERITY[lvl])

\* lines 42-43 and 76-77
Priority(lvl, fac) == BitOr(ShiftLeft(fac, 3), SYSLOG_SEVERITY[lvl])

\* formatRFC3164, lines 41-60: `<${priority}>${timestamp} ...`
FormatRFC3164(lvl, fac) ==
    << "<" >> \o Digits(Priority(lvl, fac)) \o << ">" >>

\* formatRFC5424, lines 75-88: `<${priority}>1 ${timestamp} ...`
FormatRFC5424(lvl, fac) ==
    << "<" >> \o Digits(Priority(lvl, fac)) \o << ">", "1", " " >>

\* formatSyslogMessage, lines 113-120, called with the stored options
FormatSyslogMessage(lvl, fac, version) ==
    IF version = 3164 THEN FormatRFC3164(lvl, fac) ELSE FormatRFC5424(lvl, fac)

\* SyslogTransport constructor, lines 59 and 62
FormatInit ==
    /\ facility \in { Coalesce(c, DefaultFacility) : c \in CfgFacilities }
    /\ protocolVersion \in { Coalesce(c, DefaultProtocolVersion) : c \in CfgProtocolVersions }
    /\ entryLevel = Levels.ERROR
    /\ line = << >>

\* SyslogTransport.log, line 264: the entry is formatted
SyslogFormats ==
    /\ \E lvl \in LevelValues :
         /\ entryLevel' = lvl
         /\ line' = FormatSyslogMessage(lvl, facility, protocolVersion)
    /\ UNCHANGED << facility, protocolVersion, lokiVars, syslogVars, labelVars,
                    loggerVars >>

----------------------------------------------------------------------------
(* Logger *)

NoLEv == [op |-> "init", level |-> Levels.ERROR, calls |-> << >>]

\* `>` for `>=`: entries at the threshold level are filtered out
ShouldLogStrict(threshold, lvl) == threshold > lvl

\* shouldLog, lines 358-360
ShouldLog(threshold, lvl) == threshold >= lvl

\* processEntry, lines 384-390: the transports whose log() is called, in order
ProcessEntry(threshold, list, lvl) ==
    IF ~ShouldLog(threshold, lvl) THEN << >> ELSE list

\* constructor, lines 343-350, over the field initialisers, lines 334-335
LoggerInit ==
    /\ loggerLevel \in { IF c = -1 THEN Levels.INFO ELSE c : c \in CfgLevels }
    /\ transports \in { IF c = << >> THEN << "console" >> ELSE c : c \in CfgTransports }
    /\ lEv = NoLEv

\* log(level, message, metadata), lines 406-408, and the level methods
LoggerLog ==
    /\ \E lvl \in LevelValues :
         lEv' = [op |-> "log", level |-> lvl,
                 calls |-> ProcessEntry(loggerLevel, transports, lvl)]
    /\ UNCHANGED << loggerLevel, transports, lokiVars, syslogVars, labelVars,
                    formatVars >>

\* addTransport, lines 519-521
AddTransport ==
    /\ Len(transports) < MaxTransports
    /\ \E tr \in TransportNames : transports' = Append(transports, tr)
    /\ lEv' = [NoLEv EXCEPT !.op = "add"]
    /\ UNCHANGED << loggerLevel, lokiVars, syslogVars, labelVars, formatVars >>

\* removeTransport, lines 529-531
RemoveTransport ==
    /\ \E tr \in TransportNames :
         LET other(x) == x # tr
         IN  transports' = SelectSeq(transports, other)
    /\ lEv' = [NoLEv EXCEPT !.op = "remove"]
    /\ UNCHANGED << loggerLevel, lokiVars, syslogVars, labelVars, formatVars >>

\* setLevel, lines 540-542
SetLevel ==
    /\ \E lvl \in LevelValues : loggerLevel' = lvl
    /\ lEv' = [NoLEv EXCEPT !.op = "level"]
    /\ UNCHANGED << transports, lokiVars, syslogVars, labelVars, formatVars >>

----------------------------------------------------------------------------
(* Specifications: one transport instance each *)

\* no SyslogTransport is constructed
SyslogIdle ==
    /\ protocol = "none"
    /\ sMaxQueueSize = SyslogDefaultMaxQueueSize
    /\ sRetryBaseDelay = SyslogDefaultRetryBaseDelay
    /\ socket = "null"
    /\ isConnecting = FALSE
    /\ sQueue = << >>
    /\ sRetryCount = 0
    /\ reconnectTimer = FALSE
    /\ pendingReconnects = 0
    /\ closePending = FALSE
    /\ hung = FALSE
    /\ sNextId = 0
    /\ written = << >>
    /\ pendingCb = << >>
    /\ sFails = 0
    /\ closeCalled = FALSE
    /\ sEv = NoSEv

\* no LokiTransport is constructed
LokiIdle ==
    /\ hasUrl = TRUE
    /\ batchSize = DefaultBatchSize
    /\ maxQueueSize = DefaultMaxQueueSize
    /\ maxRetries = DefaultMaxRetries
    /\ retryBaseDelay = DefaultRetryBaseDelay
    /\ queue = << >>
    /\ isSending = FALSE
    /\ timeoutHandle = "none"
    /\ retryTimer = "none"
    /\ retryCount = 0
    /\ orphanTimers = 0
    /\ inflight = << >>
    /\ nextId = 0
    /\ delivered = << >>
    /\ fails = 0
    /\ lastFailed = << >>
    /\ sameFails = 0
    /\ streakLogged = FALSE
    /\ pushed = FALSE
    /\ ev = NoEv

\* no entry is formatted
LabelsIdle ==
    /\ labels = << >>
    /\ maxLabelCount = DefaultMaxLabelCount
    /\ metadata = << >>
    /\ stream = << >>

\* no line is formatted
FormatIdle ==
    /\ facility = DefaultFacility
    /\ protocolVersion = DefaultProtocolVersion
    /\ entryLevel = Levels.ERROR
    /\ line = << >>

\* no Logger is constructed
LoggerIdle ==
    /\ loggerLevel = Levels.INFO
    /\ transports = << >>
    /\ lEv = NoLEv

\* one LokiTransport
Init == LokiInit /\ SyslogIdle /\ LabelsIdle /\ FormatIdle /\ LoggerIdle
Next == LokiNext
Spec == Init /\ [][Next]_vars

\* one LokiTransport with an endpoint URL on an event loop that runs every
\* timer that is due, with a network on which every request ends, well or
\* badly.  The delays play no part in what eventually happens: one
\* retryBaseDelay stands for all.
PushCompletes == PushSucceeds \/ PushRejected \/ PushErrors
InitFair == Init /\ hasUrl /\ retryBaseDelay = DefaultRetryBaseDelay
SpecFair ==
    /\ InitFair /\ [][Next]_vars
    /\ WF_vars(LingerFires)
    /\ WF_vars(RetryFires)
    /\ WF_vars(PushCompletes)

\* one SyslogTransport
InitSyslog == SyslogInit /\ LokiIdle /\ LabelsIdle /\ FormatIdle /\ LoggerIdle
NextSyslog == SyslogNext
SpecSyslog == InitSyslog /\ [][NextSyslog]_vars

\* one SyslogTransport on an event loop that runs every timer that is due:
\* a reconnect timer that stays pending fires
SpecSyslogFair == SpecSyslog /\ WF_vars(ReconnectFires)

\* one transport of either kind
InitEither == Init \/ InitSyslog
NextEither ==
    \/ protocol = "none" /\ LokiNext
    \/ protocol # "none" /\ SyslogNext
SpecEither == InitEither /\ [][NextEither]_vars

\* the labels of the entries one LokiTransport formats
InitLabels == LabelsInit /\ LokiIdle /\ SyslogIdle /\ FormatIdle /\ LoggerIdle
NextLabels == LogFormats
SpecLabels == InitLabels /\ [][NextLabels]_vars

\* the lines one SyslogTransport formats
InitFormat == FormatInit /\ LokiIdle /\ SyslogIdle /\ LabelsIdle /\ LoggerIdle
NextFormat == SyslogFormats
SpecFormat == InitFormat /\ [][NextFormat]_vars

\* one Logger
InitLogger == LoggerInit /\ LokiIdle /\ SyslogIdle /\ LabelsIdle /\ FormatIdle
NextLogger ==
    \/ LoggerLog
    \/ AddTransport
    \/ RemoveTransport
    \/ SetLevel
SpecLogger == InitLogger /\ [][NextLogger]_vars

----------------------------------------------------------------------------
(* Properties *)

IsFailure(e) == e.op \in {"non2xx", "neterr"}

StrictlyIncreasing(s) == \A i, j \in 1..Len(s) : i < j => s[i] < s[j]

\* C1: the queue of LokiTransport never holds more than maxQueueSize items,
\* and log() leaves the queue as it was, without its oldest item if it was
\* full, followed by the entry just logged.
C1_QueueBound ==
    [][ /\ Len(queue') <= maxQueueSize
        /\ nextId' = nextId + 1 =>
             queue' = Append(IF Len(queue) >= maxQueueSize THEN Tail(queue) ELSE queue,
                             nextId') ]_vars

\* C1, the scenario: maxQueueSize = 2, three log() calls and no successful
\* push leave exactly the second and the third entry, the last log() having
\* evicted the first.
C1_Witness ==
    /\ maxQueueSize = 2
    /\ ev.op = "log" /\ ev.wasFull /\ ev.evicted = 1
    /\ delivered = << >>
    /\ queue = << 2, 3 >>

\* C2: when a push succeeds, the items that leave the queue are exactly the
\* items the request carried.
C2_SuccessRemovesSentItems ==
    ev.op = "ok" => ev.removed = ev.batch

\* C3: at most one push request is in flight at any moment.
C3_OneInFlight == Len(inflight) <= 1

\* C3: a retry timer or the linger timer fired while a request was in flight
\* and more was queued, and started nothing.
C3_Witness ==
    /\ Len(inflight) = 1
    /\ ev.op \in {"retry", "linger"}
    /\ ev.started = << >>
    /\ Len(queue) > Len(inflight[1])

\* C4: on a transport with an endpoint URL, the push a retry timer starts
\* carries exactly the items of the failed push that scheduled the retry.
C4_RetryCarriesSameBatch ==
    (hasUrl /\ ev.op = "retry" /\ ev.started # << >> /\ ev.prevFailed # << >>)
        => ev.started = ev.prevFailed

\* C5: the items of the successful pushes, in the order of the pushes and of
\* the items inside each, have strictly increasing enqueue positions: none is
\* delivered before an earlier one, none twice.
C5_DeliveredInOrder == StrictlyIncreasing(delivered)

\* C5: a second or later successful push, where an entry logged before the
\* last delivered one was evicted or dropped and never delivered.
C5_Witness ==
    /\ ev.op = "ok"
    /\ Len(delivered) > Len(ev.batch)
    /\ \E k \in 1..nextId :
         /\ k < delivered[Len(delivered)]
         /\ k \notin Range(delivered)

C7_DropRemovesFailedItems ==
    (hasUrl /\ IsFailure(ev) /\ ev.dropped) => ev.removed = ev.batch

\* C8: in both transports the delay scheduled after the n-th failure in a row
\* is min(retryBaseDelay * 2^(n-1), 30000): never above 30000, and
\* non-decreasing in n.
C8_Backoff ==
    /\ (IsFailure(ev) /\ ev.retry) =>
         /\ ev.delay = Min(retryBaseDelay * 2^(ev.n - 1), 30000)
         /\ ev.delay <= RetryDelay(retryBaseDelay, ev.n + 1)
         /\ RetryDelay(retryBaseDelay, ev.n + 1) <= 30000
    /\ sEv.scheduled =>
         /\ sEv.delay = Min(sRetryBaseDelay * 2^(sEv.n - 1), 30000)
         /\ sEv.delay <= ReconnectDelay(sRetryBaseDelay, sEv.n + 1)
         /\ ReconnectDelay(sRetryBaseDelay, sEv.n + 1) <= 30000

\* C8: a second failure in a row whose doubled delay is cut to the cap.
C8_Witness ==
    \/ /\ IsFailure(ev) /\ ev.retry /\ ev.n = 2
       /\ retryBaseDelay * 2 > 30000 /\ ev.delay = 30000
    \/ /\ sEv.scheduled /\ sEv.n = 2
       /\ sRetryBaseDelay * 2 > 30000 /\ sEv.delay = 30000

\* C9: no LokiTransport exists that was constructed without an endpoint URL,
\* so none accepts a log() call.
C9_NoUrlNoTransport == ~hasUrl => nextId = 0

\* C10: every log() call returns normally to its caller, whatever the state
\* of the network or of the socket.
C10_LogReturns ==
    /\ sEv.op = "log" => (sEv.returned /\ ~sEv.threw)
    /\ ~hung

\* C11: every entry LokiTransport.log formats with maxLabelCount > 0 gets a
\* stream label set that contains the level label and has at most
\* maxLabelCount labels, whatever the static labels and the metadata.
C11_LabelCap ==
    (stream # << >> /\ maxLabelCount > 0) =>
        /\ "level" \in Keys(stream)
        /\ Len(stream) <= maxLabelCount

\* C12: on a transport with an endpoint URL, a log() call that leaves the
\* queue below batchSize does not cancel a linger timer that is pending: the
\* timer set for the first entry of an incomplete batch keeps running, so
\* the batch is pushed at most batchTimeout after that entry was enqueued.
C12_LingerNotRestarted ==
    (hasUrl /\ ev.op = "log" /\ Len(queue) < batchSize) => ~ev.cleared

\* C13: on a fresh transport whose queue can hold them, entries logged back
\* to back cause a push request by the time batchSize of them are logged,
\* and the first push request a log() call issues carries exactly the first
\* batchSize entries, in enqueue order.
C13_FirstBatch ==
    /\ (~pushed /\ nextId <= maxQueueSize) => nextId < batchSize
    /\ (ev.op = "log" /\ ev.first /\ nextId <= maxQueueSize) =>
         ev.started = [i \in 1..batchSize |-> i]

\* C13: three entries logged back to back with batchSize = 2: the push
\* issued by the second log() carries the first two, the third waits.
C13_Witness ==
    /\ hasUrl
    /\ batchSize = 2 /\ nextId = 3 /\ nextId <= maxQueueSize
    /\ ev.op = "log" /\ ev.item = 3 /\ ev.started = << >>
    /\ pushed /\ delivered = << >> /\ fails = 0 /\ retryCount = 0
    /\ timeoutHandle = "none"
    /\ inflight = << << 1, 2 >> >>
    /\ queue = << 1, 2, 3 >>

\* C14: when a log() call on an idle transport brings the queue to batchSize
\* entries, it issues one push request, which carries exactly these entries.
\* When that request succeeds and no log() call was made meanwhile, the queue
\* is empty and nothing is left that could issue a push: no request in
\* flight and no timer pending.
C14_FlushBySize ==
    /\ (ev.op = "log" /\ ev.wasIdle /\ Len(queue) = batchSize) =>
         /\ ev.started = queue
         /\ inflight = << queue >>
         /\ timeoutHandle # "pending"
    /\ (ev.op = "ok" /\ ev.quiet) =>
         /\ queue = << >>
         /\ inflight = << >>
         /\ ~isSending
         /\ ev.started = << >>
         /\ timeoutHandle # "pending"
         /\ retryTimer # "pending"
         /\ orphanTimers = 0

\* C14: batchSize = 2, log(1), log(2), and the one push of both succeeded:
\* the transport is at rest with an empty queue.
C14_Witness ==
    /\ hasUrl
    /\ batchSize = 2 /\ nextId = 2
    /\ ev.op = "ok" /\ ev.quiet /\ ev.batch = << 1, 2 >>
    /\ delivered = << 1, 2 >>
    /\ queue = << >>
    /\ inflight = << >>

C16_TimerDuringPushIsNoOp ==
    [][ ( /\ inflight # << >>
          /\ \/ timeoutHandle = "pending" /\ timeoutHandle' = "fired"
             \/ retryTimer = "pending" /\ retryTimer' = "fired"
             \/ orphanTimers' = orphanTimers - 1 )
        => /\ inflight' = inflight
           /\ ev'.started = << >>
           /\ queue' = queue
           /\ retryCount' = retryCount
           /\ isSending' = isSending
           /\ delivered' = delivered ]_vars

\* C16: a retry timer fired while a request was in flight and more entries
\* than it carries were queued; nothing was started.
C16_Witness ==
    /\ hasUrl
    /\ isSending
    /\ Len(inflight) = 1
    /\ ev.op = "retry"
    /\ ev.started = << >>
    /\ retryTimer = "fired"
    /\ Len(queue) > Len(inflight[1])

\* C17: with maxQueueSize >= 1 the queue of SyslogTransport never holds more
\* than maxQueueSize lines, and a log() call on a full queue removes the
\* oldest line and leaves the new one last.
C17_SyslogQueueBound ==
    [][ sMaxQueueSize >= 1 =>
          /\ Len(sQueue') <= sMaxQueueSize
          /\ (sNextId' = sNextId + 1 /\ Len(sQueue) >= sMaxQueueSize /\ ~hung') =>
               \/ sQueue' = Append(Tail(sQueue), sNextId')
               \/ /\ sQueue' = << >>
                  /\ written' = written \o Append(Tail(sQueue), sNextId') ]_vars

\* C17, the scenario: maxQueueSize = 2 and three log() calls while no
\* connection is established leave exactly the second and the third line.
C17_Witness ==
    /\ sMaxQueueSize = 2
    /\ sEv.op = "log" /\ sEv.item = 3
    /\ socket \in {"null", "connecting"}
    /\ written = << >>
    /\ sQueue = << 2, 3 >>

\* C18: a SyslogTransport configured with maxQueueSize = 0 keeps every
\* line: as long as nothing was handed to a socket, all lines logged so far
\* are in the queue, in order.
C18_ZeroIsUnlimited ==
    (sMaxQueueSize = 0 /\ written = << >> /\ ~hung) =>
        sQueue = [i \in 1..sNextId |-> i]

\* C19: in tcp and tcp-tls mode with a queue bound of at least 1, while the
\* socket is still connecting a log() call only enqueues: its line is last
\* in the queue and has not been handed to the socket.
C19_NoWriteWhileConnecting ==
    ( /\ protocol \in {"tcp", "tcp-tls"} /\ sMaxQueueSize >= 1
      /\ sEv.op = "log" /\ socket = "connecting" ) =>
        /\ sQueue # << >>
        /\ sQueue[Len(sQueue)] = sEv.item
        /\ sEv.item \notin Range(written)

\* C20: in tcp mode a line logged while no connection is established is
\* only enqueued; a line leaves the queue only when it is handed to the
\* socket or when a log() call on a full queue evicts it; the connect
\* callback of a successful attempt hands every queued line to the socket,
\* in order; and while lines wait with no socket, the reconnect timer brings
\* a new connection attempt unless close() is called first.
C20_QueuedUntilConnected ==
    /\ [][ protocol = "tcp" =>
             /\ (sNextId' = sNextId + 1 /\ socket \in {"null", "connecting"}) =>
                  /\ sQueue' # << >>
                  /\ sQueue'[Len(sQueue')] = sNextId'
                  /\ written' = written
             /\ \A x \in Range(sQueue) \ Range(sQueue') :
                  \/ x \in Range(written')
                  \/ /\ sNextId' = sNextId + 1
                     /\ x = Head(sQueue)
                     /\ Len(sQueue) >= sMaxQueueSize
             /\ (socket = "connecting" /\ socket' = "connected") =>
                  /\ sQueue' = << >>
                  /\ written' = written \o sQueue ]_vars
    /\ (protocol = "tcp" /\ socket = "null" /\ sQueue # << >> /\ ~closeCalled)
           ~> (socket = "connecting" \/ closeCalled)

\* C20: two lines were logged while no connection was established, at least
\* one connection attempt failed, and the connect callback of a later
\* attempt handed both to the socket.
C20_Witness ==
    /\ protocol = "tcp"
    /\ sEv.op = "connect"
    /\ sEv.after >= 1
    /\ sEv.flushed = << 1, 2 >>
    /\ sQueue = << >>

\* C21: with a queue bound of at least 1, every flush ends, so every handler that flushes returns; when the
\* send call throws, the line is back in the queue and the handler has
\* returned with the lines still queued.
C21_FlushTerminates ==
    sMaxQueueSize >= 1 =>
        /\ ~hung
        /\ (sEv.op \in {"log", "connect"} /\ SendThrows(socket)) =>
             (sEv.returned /\ sQueue # << >>)

\* C22: with a queue bound of at least 1, a line whose send was reported as failed through the completion
\* callback is in the queue afterwards.
C22_SendErrorRequeues ==
    (sMaxQueueSize >= 1 /\ sEv.op = "senderr") => sEv.item \in Range(sQueue)

\* C23: every close() call leaves no reconnect timer pending and no socket
\* in use, and the promise it returns resolves.
C23_CloseResolves ==
    sEv.op = "close" =>
        /\ ~reconnectTimer
        /\ socket \in {"null", "closed", "destroyed"}
        /\ sEv.resolved

\* C24: a SyslogTransport on which close() was not called never gives up:
\* whenever it has no socket a reconnect timer is pending, however many
\* connection failures came in a row, and every timer that fires makes a
\* new socket.
C24_NeverGivesUp ==
    /\ (protocol # "none" /\ ~closeCalled /\ socket = "null") => reconnectTimer
    /\ sEv.op = "reconnect" => (socket # "null" /\ ~reconnectTimer)

\* C24: MaxAttempts connection failures in a row, and the next attempt is
\* scheduled.
C24_Witness ==
    /\ ~closeCalled
    /\ socket = "null"
    /\ sRetryCount = MaxAttempts
    /\ sEv.scheduled /\ sEv.n = MaxAttempts
    /\ reconnectTimer

\* C25: the lines handed to the socket, over all connections, followed by
\* the lines still queued, are in enqueue order: no line is written before
\* a line enqueued earlier that is written too, and none is written twice.
C25_WrittenInOrder == StrictlyIncreasing(written \o sQueue)

\* C25: lines were written on one connection, the connection failed, and
\* the connect callback of a later attempt wrote lines queued meanwhile.
C25_Witness ==
    /\ sEv.op = "connect"
    /\ sEv.after >= 1
    /\ sEv.flushed # << >>
    /\ Len(written) > Len(sEv.flushed)
    /\ sMaxQueueSize >= 1

\* the number a line carries between "<" and ">"
DigitValue(c) == CHOOSE d \in 0..9 : DigitChars[d + 1] = c

WrittenPriority(l) ==
    LET close == CHOOSE i \in 1..Len(l) : l[i] = ">" /\ \A j \in 1..(i - 1) : l[j] # ">"
        value[i \in 1..close] ==
            IF i = 1 THEN 0 ELSE 10 * value[i - 1] + DigitValue(l[i])
    IN  value[close - 1]

\* C26: for every facility in 0..23 and every level, the priority written
\* in the line is facility * 8 + severity, with severity 3 for ERROR, 4 for
\* WARN, 5 for AUDIT, 6 for INFO and HTTP, 7 for DEBUG, VERBOSE and SILLY,
\* in the 3164 and in the 5424 format alike, and lies in 0..191.
C26_Priority ==
    line # << >> =>
        LET severity == CASE entryLevel = Levels.ERROR -> 3
                          [] entryLevel = Levels.WARN -> 4
                          [] entryLevel = Levels.AUDIT -> 5
                          [] entryLevel \in {Levels.INFO, Levels.HTTP} -> 6
                          [] OTHER -> 7
        IN  /\ line[1] = "<"
            /\ WrittenPriority(line) = facility * 8 + severity
            /\ WrittenPriority(line) \in 0..191

\* C26: facility 23 and level SILLY in the 5424 format give priority 191.
C26_Witness ==
    /\ facility = 23 /\ entryLevel = Levels.SILLY /\ protocolVersion = 5424
    /\ line = << "<", "1", "9", "1", ">", "1", " " >>

\* C27: a log call at level L calls log() of every entry of the transport
\* list once, in list order, when L <= the threshold level, and calls no
\* transport otherwise; the threshold and the list are the ones the last
\* setLevel, addTransport and removeTransport calls left.
C27_Routing ==
    lEv.op = "log" =>
        /\ lEv.level <= loggerLevel => lEv.calls = transports
        /\ lEv.level > loggerLevel => lEv.calls = << >>

\* C27: after setLevel(DEBUG) and addTransport, a DEBUG entry reaches the
\* console transport and the added one, in that order.
C27_Witness ==
    /\ lEv.op = "log"
    /\ lEv.level = Levels.DEBUG /\ loggerLevel = Levels.DEBUG
    /\ lEv.calls = << "console", "loki" >>

\* C28: a log() call made while a push request is in flight appends its
\* entry to the queue, after evicting the oldest one if the queue was full,
\* and does nothing else: no push is started, no linger or retry timer is
\* set or cancelled, retryCount and isSending stay as they were.
C28_LogDuringPushOnlyEnqueues ==
    [][ (inflight # << >> /\ nextId' = nextId + 1) =>
          /\ queue' = Append(IF Len(queue) >= maxQueueSize THEN Tail(queue) ELSE queue,
                             nextId')
          /\ inflight' = inflight
          /\ ev'.started = << >> /\ ~ev'.cleared /\ ~ev'.armed
          /\ timeoutHandle' = timeoutHandle
          /\ retryTimer' = retryTimer
          /\ orphanTimers' = orphanTimers
          /\ retryCount' = retryCount
          /\ isSending' = isSending ]_vars

\* C28: a log() call during a push found the queue full and evicted the
\* oldest entry; the request in flight is still the only one.
C28_Witness ==
    /\ hasUrl
    /\ ev.op = "log" /\ ev.evicted # 0
    /\ ev.started = << >>
    /\ Len(inflight) = 1
    /\ isSending

C30_NoLingerDuringPush ==
    /\ [](inflight # << >> => timeoutHandle # "pending")
    /\ [][ ( /\ nextId' = nextId + 1
             /\ ev'.started # << >>
             /\ timeoutHandle = "pending" ) =>
           ( /\ ev'.cleared
             /\ timeoutHandle' = "none" ) ]_vars

\* C30: batchSize = 2: log(1) armed the linger timer, log(2) filled the
\* batch: the timer was cancelled and the push of both entries is in flight.
C30_Witness ==
    /\ hasUrl
    /\ batchSize = 2 /\ nextId = 2
    /\ ev.op = "log" /\ ev.wasIdle
    /\ ev.cleared
    /\ ev.started = << 1, 2 >>
    /\ inflight = << << 1, 2 >> >>
    /\ timeoutHandle = "none"

\* the per-entry labels of the last entry: its metadata without the keys the
\* configuration already sets and without level, in their original order
PerEntryLabels ==
    SelectSeq(metadata, LAMBDA e : e.k \notin Keys(labels) \cup {"level"})

\* the slots the cap leaves for per-entry labels
FreeSlots ==
    IF maxLabelCount - 1 - Len(labels) > 0
    THEN maxLabelCount - 1 - Len(labels)
    ELSE 0

\* C31: when the level label, the static labels and the metadata of an
\* entry logged through LokiTransport are more than maxLabelCount labels,
\* the stream label set is the level label, every static label and the
\* first per-entry labels, in their original order, that fit the remaining
\* slots; the other per-entry labels are absent.
C31_CapDropsPerEntryLabels ==
    ( /\ stream # << >>
      /\ maxLabelCount > 0
      /\ 1 + Len(labels) + Len(PerEntryLabels) > maxLabelCount ) =>
        Keys(stream) = {"level"} \cup Keys(labels)
                       \cup Keys(SubSeq(PerEntryLabels, 1,
                                        Min(FreeSlots, Len(PerEntryLabels))))

\* C32: in stream and encrypted-stream mode a successful connect leaves
\* retryCount at 0 and the queue empty, every line that waited having gone
\* to the socket in enqueue order; and the first reconnect scheduled after
\* a successful connect waits retryBaseDelay (30,000 ms at most).
C32_ConnectResets ==
    /\ [](sEv.op = "connect" =>
            /\ sRetryCount = 0
            /\ sQueue = << >>
            /\ sEv.returned
            /\ StrictlyIncreasing(written))
    /\ [][ ( /\ protocol \in {"tcp", "tcp-tls"}
             /\ socket = "connected"
             /\ sEv'.op \in {"error", "close"}
             /\ sEv'.scheduled ) =>
           ( /\ sEv'.delay = Min(sRetryBaseDelay, SyslogMaxDelay)
             /\ sRetryCount' = 1 ) ]_vars

\* C32: two connection attempts failed, two lines were logged meanwhile,
\* then the connect succeeded: both lines written, retryCount back at 0.
C32_Witness ==
    /\ protocol = "tcp"
    /\ sEv.op = "connect" /\ sEv.after = 2
    /\ sEv.flushed = << 1, 2 >>
    /\ sRetryCount = 0
    /\ sQueue = << >>

\* C33: on a transport with an endpoint URL, while the retry timer of a
\* failed push is pending, neither a log() call nor the linger timer starts
\* a push request.
C33_NoPushDuringBackoff ==
    (hasUrl /\ retryTimer = "pending" /\ ev.op \in {"log", "linger"}) =>
        ev.started = << >>

\* C34: on a transport with an endpoint URL at most one retry timer is
\* pending: no pending retry timer exists besides the one this.retryTimer
\* refers to, and after a successful push none is pending at all.
C34_OneRetryTimer ==
    hasUrl =>
        /\ orphanTimers = 0
        /\ ev.op = "ok" => retryTimer # "pending"

\* C35: whenever entries are queued and no push request is in flight, the
\* linger timer or the retry timer this.retryTimer refers to is pending.
C35_NeverStalls ==
    (queue # << >> /\ inflight = << >>) =>
        \/ timeoutHandle = "pending"
        \/ retryTimer = "pending"

\* C35: a push was delivered while a later entry waited in the queue; the
\* finally block armed the linger timer for it.
C35_Witness ==
    /\ hasUrl
    /\ ev.op = "ok" /\ ev.armed
    /\ queue # << >> /\ inflight = << >>
    /\ timeoutHandle = "pending" /\ retryTimer # "pending"

\* C36: when timers fire and every push request ends, then whatever the
\* outcomes of the requests, once log() is no longer called the transport
\* comes to rest idle, with an empty queue and no timer pending; so every
\* entry that was enqueued has left the queue by then.
C36_QueueDrains ==
    <>[](queue = << >> /\ Idle /\ timeoutHandle # "pending")

\* C36: the endpoint failed every time: the batch was dropped after
\* maxRetries + 1 failures and the transport is idle with an empty queue.
C36_Witness ==
    /\ hasUrl
    /\ maxRetries = 1
    /\ ev.op \in {"non2xx", "neterr"} /\ ev.dropped /\ ev.n = 2
    /\ delivered = << >>
    /\ nextId = 1
    /\ queue = << >> /\ Idle /\ timeoutHandle # "pending"

\* C37: the queue always holds consecutive entries of the sequence of all
\* enqueued entries, in enqueue order; and every step leaves a suffix of
\* the queue, followed by the entry just logged if the step is a log() call.
C37_QueueContiguous ==
    /\ [](\A i \in 1..Len(queue) : queue[i] = queue[1] + i - 1)
    /\ [][ \E k \in 0..Len(queue) :
             queue' = SliceFrom(queue, k) \o
                      (IF nextId' = nextId THEN << >> ELSE << nextId' >>) ]_vars

\* C37: the batch of entries 1 and 2 was delivered and removed from the
\* front; entry 3 waits and the log() call just made put entry 4 behind it.
C37_Witness ==
    /\ hasUrl
    /\ batchSize = 2
    /\ delivered = << 1, 2 >>
    /\ ev.op = "log" /\ ev.item = 4 /\ ev.evicted = 0
    /\ queue = << 3, 4 >>

\* C38: at most one reconnect timer is pending; handleSocketError called
\* while the reconnect timer is pending leaves every field as it was; and
\* the failure of a stream socket, which emits 'error' and then 'close',
\* adds one to retryCount and sets one reconnect timer.
C38_OneReconnectTimer ==
    /\ [](pendingReconnects <= 1)
    /\ [](reconnectTimer => HandleSocketError(SThis) = SThis)
    /\ [][ ( /\ socket \in {"connecting", "connected"}
             /\ sEv'.op = "error" ) =>
           ( /\ sRetryCount' = sRetryCount + 1
             /\ pendingReconnects' = pendingReconnects + 1
             /\ sEv'.scheduled ) ]_vars

\* C38: an established stream connection failed with 'error' and 'close':
\* retryCount went from 0 to 1 and one reconnect timer is pending.
C38_Witness ==
    /\ protocol = "tcp"
    /\ written # << >>
    /\ sEv.op = "error" /\ sEv.scheduled /\ sEv.n = 1
    /\ sRetryCount = 1
    /\ reconnectTimer /\ pendingReconnects = 1
    /\ socket = "null"

\* C39: once close() has been called no reconnect timer is pending and the
\* transport refers to no socket other than the one close() shut down.
C39_ClosedStaysClosed ==
    closeCalled =>
        /\ ~reconnectTimer
        /\ socket \in {"null", "closed", "destroyed"}

\* C40: in udp mode, with room in the queue, no line waits in the queue
\* once the reconnect timer has re-created the socket: the lines queued
\* while there was no socket have been handed to the new one.
C40_UdpReconnectFlushes ==
    (protocol = "udp" /\ sMaxQueueSize >= 1 /\ sEv.op = "reconnect") =>
        sQueue = << >>

====
